---- MODULE Spec2Model ----
(***************************************************************************)
(* A model of the QOI streaming decoder of src/src/decoder.rs:             *)
(* ImageDecoder::new (header parsing), DecodeChunks::new and               *)
(* DecodeChunks::next_chunk with its helpers decode_next_chunk,            *)
(* transform_chunk, Pixel::hash_index, QOIChunk::get_size and tag_2bit.    *)
(* The byte source is an input: Init draws it from bounded families of     *)
(* byte streams, and the decoder then runs deterministically over it.      *)
(***************************************************************************)
EXTENDS Integers, Sequences, FiniteSets, TLC

VARIABLES
    source,            \* the bytes of the source R (an input, never written)
    pos,               \* how many bytes of the source have been read
    pc,                \* "start" | "decoder" | "session" | "failed" | "panicked"
    newResult,         \* what ImageDecoder::new returned: "none" | "Ok" | "IO" | "IncorrectMagic"
    header,            \* QOIHeader of the ImageDecoder
    ended,             \* DecodeChunks.ended
    prev,              \* DecodeChunks.prev
    seen,              \* DecodeChunks.seen, slots 0..63
    window,            \* DecodeChunks.window, 8 bytes (1-indexed here)
    window_processed,  \* DecodeChunks.window_processed
    run_active,        \* DecodeChunks.run_active
    run_length,        \* DecodeChunks.run_length
    ret,               \* outcome of the last next_chunk call: "none" | "Ok" | "EndMarker" | "Faulty" | "Panic"
    rets,              \* the outcome of every next_chunk call so far, in order
    out,               \* the pixel carried by the last EvaluatedChunk::Ok
    chunk,             \* the chunk most recently decoded by decode_next_chunk (NoChunk before the first)
    emitted,           \* every pixel returned so far, in order
    produced,          \* the pixels computed by transform_chunk so far, in order
    runEmitted,        \* pixels returned for the Run chunk most recently decoded
    decoded,           \* every chunk decoded by decode_next_chunk so far, in order
    it,                \* the PixelChannelIterator in use (NoIter when there is none)
    itRets,            \* what every next() call on the iterator returned, in order
    orig               \* the pixel sequence the source was encoded from (RawOrig for a raw stream)

vars == <<source, pos, pc, newResult, header, ended, prev, seen, window,
          window_processed, run_active, run_length, ret, rets, out, chunk,
          emitted, produced, runEmitted, decoded, it, itRets, orig>>

----------------------------------------------------------------------------
(* Bounds of the input families.                                           *)

MaxChunks == 3
MaxPixels == 3

----------------------------------------------------------------------------
(* Data types and constants of decoder.rs.                                 *)

Byte == 0..255

Pixel_new(r, g, b, a) == [r |-> r, g |-> g, b |-> b, a |-> a]

Pixel_zero == [r |-> 0, g |-> 0, b |-> 0, a |-> 0]

QOI_END_MARKER == <<0, 0, 0, 0, 0, 0, 0, 1>>

SEEN_ARRAY_SIZE == 64

HEADER_SIZE == 14

QOI_MAGIC == <<113, 111, 105, 102>>

NoHeader == [width |-> 0, height |-> 0, channels |-> 0, colorspace |-> 0]

NoChunk == [kind |-> "None"]

NoIter == [channels |-> 0, counter |-> 0, px |-> Pixel_zero]

(* hash_index with the alpha weight mistyped *)
hash_index_alpha13(p) == (p.r * 3 + p.g * 5 + p.b * 7 + p.a * 13) % 64

hash_index(p) == (p.r * 3 + p.g * 5 + p.b * 7 + p.a * 11) % 64

wrapping_add(x, y) == (x + y) % 256

wrapping_sub(x, y) == (x + 256 - y) % 256

(* bitwise x & y on 8-bit values *)
BitAnd(x, y) ==
    LET bit(v, i) == (v \div (2 ^ i)) % 2
        term(i) == bit(x, i) * bit(y, i) * (2 ^ i)
    IN term(0) + term(1) + term(2) + term(3) + term(4) + term(5) + term(6) + term(7)

(* x >> n on 8-bit values *)
Shr(x, n) == x \div (2 ^ n)

tag_2bit(x, tag) == Shr(BitAnd(x, 192), 6) = tag

(* be_u32 reading the bytes in little-endian order *)
be_u32_le(bytes) ==
    bytes[4] * 16777216 + bytes[3] * 65536 + bytes[2] * 256 + bytes[1]

be_u32(bytes) ==
    bytes[1] * 16777216 + bytes[2] * 65536 + bytes[3] * 256 + bytes[4]

verify_magic(buf) == buf = QOI_MAGIC

(* get_size counting the payload bytes only, without the tag byte *)
get_size_notag(c) ==
    CASE c.kind = "ColorRGB"  -> 3
      [] c.kind = "ColorRGBA" -> 4
      [] c.kind = "Index"     -> 0
      [] c.kind = "Diff"      -> 0
      [] c.kind = "Luma"      -> 1
      [] c.kind = "Run"       -> 0

(* get_size with ColorRGB counted without its tag byte *)
get_size_rgb3(c) ==
    CASE c.kind = "ColorRGB"  -> 3
      [] c.kind = "ColorRGBA" -> 5
      [] c.kind = "Index"     -> 1
      [] c.kind = "Diff"      -> 1
      [] c.kind = "Luma"      -> 2
      [] c.kind = "Run"       -> 1

get_size(c) ==
    CASE c.kind = "ColorRGB"  -> 4
      [] c.kind = "ColorRGBA" -> 5
      [] c.kind = "Index"     -> 1
      [] c.kind = "Diff"      -> 1
      [] c.kind = "Luma"      -> 2
      [] c.kind = "Run"       -> 1

(* [T]::rotate_left on the 8-byte window *)
rotate_left(w, n) == [i \in 1..8 |-> w[((i - 1 + n) % 8) + 1]]

(* the window after rotate_left(n) and read_exact into window[(8 - n)..] *)
Refill(w, n, src, p) ==
    LET rot == IF n > 0 THEN rotate_left(w, n) ELSE w
    IN [i \in 1..8 |-> IF i > 8 - n THEN src[p + (i - (8 - n))] ELSE rot[i]]

(* the windows a failed read_exact can leave: rotate_left(n) has run, then  *)
(* the reader has copied the bytes it had into the head of                 *)
(* window[(8 - n)..] (File, a counting reader) or has copied none (&[u8]); *)
(* the buffer after a failed read_exact is left unspecified by the reader  *)
FailedRefill(w, n, src, p) ==
    LET rot == IF n > 0 THEN rotate_left(w, n) ELSE w
        k == Len(src) - p
    IN { rot,
         [i \in 1..8 |-> IF i > 8 - n /\ i - (8 - n) <= k
                         THEN src[p + (i - (8 - n))]
                         ELSE rot[i]] }

(* the end-marker test comparing against eight zero bytes *)
IsEndMarker_zeros(w) == w = <<0, 0, 0, 0, 0, 0, 0, 0>>

IsEndMarker(w) == w = QOI_END_MARKER

(* decode_next_chunk with ColorRGB's alpha fixed to opaque *)
decode_next_chunk_opaque(w, pv) ==
    LET tag == w[1] IN
    IF tag = 254 THEN
        [kind |-> "ColorRGB", px |-> Pixel_new(w[2], w[3], w[4], 255)]
    ELSE IF tag = 255 THEN
        [kind |-> "ColorRGBA", px |-> Pixel_new(w[2], w[3], w[4], w[5])]
    ELSE IF tag_2bit(tag, 0) /\ w[2] # tag THEN
        [kind |-> "Index", index |-> BitAnd(tag, 63)]
    ELSE IF tag_2bit(tag, 1) THEN
        [kind |-> "Diff",
         dr |-> wrapping_sub(BitAnd(Shr(tag, 4), 3), 2),
         dg |-> wrapping_sub(BitAnd(Shr(tag, 2), 3), 2),
         db |-> wrapping_sub(BitAnd(tag, 3), 2)]
    ELSE IF tag_2bit(tag, 2) THEN
        [kind |-> "Luma",
         diff_green |-> wrapping_sub(BitAnd(tag, 63), 32),
         drdg |-> wrapping_sub(BitAnd(Shr(w[2], 4), 15), 8),
         dbdg |-> wrapping_sub(BitAnd(w[2], 15), 8)]
    ELSE IF tag_2bit(tag, 3) THEN
        [kind |-> "Run", n |-> BitAnd(tag, 63)]
    ELSE NoChunk

(* decode_next_chunk with the 2-bit Run arm tried before the 0xFE and 0xFF arms *)
decode_next_chunk_runfirst(w, pv) ==
    LET tag == w[1] IN
    IF tag_2bit(tag, 3) THEN
        [kind |-> "Run", n |-> BitAnd(tag, 63)]
    ELSE IF tag = 254 THEN
        [kind |-> "ColorRGB", px |-> Pixel_new(w[2], w[3], w[4], pv.a)]
    ELSE IF tag = 255 THEN
        [kind |-> "ColorRGBA", px |-> Pixel_new(w[2], w[3], w[4], w[5])]
    ELSE IF tag_2bit(tag, 0) /\ w[2] # tag THEN
        [kind |-> "Index", index |-> BitAnd(tag, 63)]
    ELSE IF tag_2bit(tag, 1) THEN
        [kind |-> "Diff",
         dr |-> wrapping_sub(BitAnd(Shr(tag, 4), 3), 2),
         dg |-> wrapping_sub(BitAnd(Shr(tag, 2), 3), 2),
         db |-> wrapping_sub(BitAnd(tag, 3), 2)]
    ELSE IF tag_2bit(tag, 2) THEN
        [kind |-> "Luma",
         diff_green |-> wrapping_sub(BitAnd(tag, 63), 32),
         drdg |-> wrapping_sub(BitAnd(Shr(w[2], 4), 15), 8),
         dbdg |-> wrapping_sub(BitAnd(w[2], 15), 8)]
    ELSE NoChunk

(* decode_next_chunk: window w (w[1] is the tag, buf = w[2..8]), previous pixel pv *)
decode_next_chunk(w, pv) ==
    LET tag == w[1] IN
    IF tag = 254 THEN
        [kind |-> "ColorRGB", px |-> Pixel_new(w[2], w[3], w[4], pv.a)]
    ELSE IF tag = 255 THEN
        [kind |-> "ColorRGBA", px |-> Pixel_new(w[2], w[3], w[4], w[5])]
    ELSE IF tag_2bit(tag, 0) /\ w[2] # tag THEN
        [kind |-> "Index", index |-> BitAnd(tag, 63)]
    ELSE IF tag_2bit(tag, 1) THEN
        [kind |-> "Diff",
         dr |-> wrapping_sub(BitAnd(Shr(tag, 4), 3), 2),
         dg |-> wrapping_sub(BitAnd(Shr(tag, 2), 3), 2),
         db |-> wrapping_sub(BitAnd(tag, 3), 2)]
    ELSE IF tag_2bit(tag, 2) THEN
        [kind |-> "Luma",
         diff_green |-> wrapping_sub(BitAnd(tag, 63), 32),
         drdg |-> wrapping_sub(BitAnd(Shr(w[2], 4), 15), 8),
         dbdg |-> wrapping_sub(BitAnd(w[2], 15), 8)]
    ELSE IF tag_2bit(tag, 3) THEN
        [kind |-> "Run", n |-> BitAnd(tag, 63)]
    ELSE NoChunk

(* transform_chunk with the Index read off by one slot *)
transform_chunk_index1(c, sn, pv) ==
    CASE c.kind \in {"ColorRGB", "ColorRGBA"} -> c.px
      [] c.kind = "Index" -> sn[(c.index + 1) % 64]
      [] c.kind = "Diff" ->
            Pixel_new(wrapping_add(pv.r, c.dr),
                      wrapping_add(pv.g, c.dg),
                      wrapping_add(pv.b, c.db),
                      pv.a)
      [] c.kind = "Luma" ->
            Pixel_new(wrapping_add(wrapping_add(pv.r, c.diff_green), c.drdg),
                      wrapping_add(pv.g, c.diff_green),
                      wrapping_add(wrapping_add(pv.b, c.diff_green), c.dbdg),
                      pv.a)

(* transform_chunk with Luma's blue rebuilt from drdg instead of dbdg *)
transform_chunk_bluedrdg(c, sn, pv) ==
    CASE c.kind \in {"ColorRGB", "ColorRGBA"} -> c.px
      [] c.kind = "Index" -> sn[c.index]
      [] c.kind = "Diff" ->
            Pixel_new(wrapping_add(pv.r, c.dr),
                      wrapping_add(pv.g, c.dg),
                      wrapping_add(pv.b, c.db),
                      pv.a)
      [] c.kind = "Luma" ->
            Pixel_new(wrapping_add(wrapping_add(pv.r, c.diff_green), c.drdg),
                      wrapping_add(pv.g, c.diff_green),
                      wrapping_add(wrapping_add(pv.b, c.diff_green), c.drdg),
                      pv.a)

(* transform_chunk: never called on a Run chunk *)
transform_chunk(c, sn, pv) ==
    CASE c.kind \in {"ColorRGB", "ColorRGBA"} -> c.px
      [] c.kind = "Index" -> sn[c.index]
      [] c.kind = "Diff" ->
            Pixel_new(wrapping_add(pv.r, c.dr),
                      wrapping_add(pv.g, c.dg),
                      wrapping_add(pv.b, c.db),
                      pv.a)
      [] c.kind = "Luma" ->
            Pixel_new(wrapping_add(wrapping_add(pv.r, c.diff_green), c.drdg),
                      wrapping_add(pv.g, c.diff_green),
                      wrapping_add(wrapping_add(pv.b, c.diff_green), c.dbdg),
                      pv.a)

----------------------------------------------------------------------------
(* The cache write and the run bookkeeping of next_chunk.                  *)

(* the cache write that keeps a slot's first pixel *)
UpdateSeen_keepfirst(sn, pixel) ==
    IF sn[hash_index(pixel)] = Pixel_zero
    THEN [sn EXCEPT ![hash_index(pixel)] = pixel]
    ELSE sn

(* self.seen[pixel.hash_index()] = pixel *)
UpdateSeen(sn, pixel) == [sn EXCEPT ![hash_index(pixel)] = pixel]

(* the run bookkeeping without the "- 1" for the pixel returned at once *)
RunRemaining_nominus(n) == (n + 1) % 256

(* *run_length += 1; self.run_length = *run_length - 1 (u8 arithmetic) *)
RunRemaining(n) == ((n + 1) % 256) - 1

----------------------------------------------------------------------------
(* The format's cache slot of a pixel, (3r + 5g + 7b + 11a) mod 64.        *)

SpecSlot(p) == (3 * p.r + 5 * p.g + 7 * p.b + 11 * p.a) % 64

(* A conformant QOI encoder: the producer of well-formed sources. It is    *)
(* not part of the repository; it is the environment the round-trip        *)
(* property quantifies over.                                               *)

(* difference of two bytes as a signed 8-bit value *)
S8(x, y) == LET m == (x + 256 - y) % 256 IN IF m > 127 THEN m - 256 ELSE m

EncodePixel(p, pv) ==
    IF p.a # pv.a THEN <<255, p.r, p.g, p.b, p.a>>
    ELSE LET vr == S8(p.r, pv.r)
             vg == S8(p.g, pv.g)
             vb == S8(p.b, pv.b)
             vg_r == vr - vg
             vg_b == vb - vg
         IN IF vr \in -2..1 /\ vg \in -2..1 /\ vb \in -2..1
            THEN <<64 + (vr + 2) * 16 + (vg + 2) * 4 + (vb + 2)>>
            ELSE IF vg_r \in -8..7 /\ vg \in -32..31 /\ vg_b \in -8..7
            THEN <<128 + (vg + 32), (vg_r + 8) * 16 + (vg_b + 8)>>
            ELSE <<254, p.r, p.g, p.b>>

RECURSIVE EncodeFrom(_, _, _, _, _)
EncodeFrom(px, i, pv, idx, run) ==
    IF i > Len(px) THEN <<>>
    ELSE LET p == px[i] IN
         IF p = pv THEN
             IF run + 1 = 62 \/ i = Len(px)
             THEN <<192 + run>> \o EncodeFrom(px, i + 1, p, idx, 0)
             ELSE EncodeFrom(px, i + 1, p, idx, run + 1)
         ELSE
             LET flush == IF run > 0 THEN <<192 + (run - 1)>> ELSE <<>>
                 h == SpecSlot(p)
             IN IF idx[h] = p
                THEN flush \o <<h>> \o EncodeFrom(px, i + 1, p, idx, 0)
                ELSE flush \o EncodePixel(p, pv)
                     \o EncodeFrom(px, i + 1, p, [idx EXCEPT ![h] = p], 0)

QoiEncode(px) ==
    EncodeFrom(px, 1, Pixel_new(0, 0, 0, 255), [i \in 0..63 |-> Pixel_zero], 0)

----------------------------------------------------------------------------
(* The bounded families of sources.                                        *)

GoodHeader == QOI_MAGIC \o <<0, 0, 0, 4, 0, 0, 0, 2, 3, 0>>

BadMagicHeader == <<113, 111, 105, 70>> \o <<0, 0, 0, 4, 0, 0, 0, 2, 3, 0>>

(* chunks, as wire bytes, that raw streams are built from *)
ChunkAlphabet ==
    { <<254, 10, 20, 30>>,      \* ColorRGB (10,20,30): hash slot 9 with alpha 255
      <<255, 64, 0, 0, 0>>,     \* ColorRGBA (64,0,0,0): a non-zero pixel of hash slot 0
      <<0>>,                    \* Index 0
      <<5>>,                    \* Index 5
      <<9>>,                    \* Index 9
      <<127>>,                  \* Diff (+1,+1,+1)
      <<191, 240>>,             \* Luma dg = 31, drdg = 7, dbdg = -8
      <<195>> }                 \* Run, raw payload 3

(* what follows the chunks: the end marker, nothing (a truncated stream),  *)
(* or the end marker with further bytes behind it                          *)
Tails ==
    { QOI_END_MARKER,
      <<>>,
      QOI_END_MARKER \o <<254, 10, 20, 30>> \o QOI_END_MARKER }

RECURSIVE Flatten(_)
Flatten(cs) == IF cs = <<>> THEN <<>> ELSE Head(cs) \o Flatten(Tail(cs))

(* pixels that encoded streams are built from *)
PixelValues ==
    { Pixel_new(0, 0, 0, 0),        \* the initial content of every cache slot
      Pixel_new(0, 0, 0, 255),      \* the initial previous pixel
      Pixel_new(10, 20, 30, 255),
      Pixel_new(11, 21, 29, 255),   \* a Diff away from (10,20,30,255)
      Pixel_new(20, 35, 42, 255),   \* a Luma away from (10,20,30,255)
      Pixel_new(64, 0, 0, 0),       \* hash slot 0
      Pixel_new(254, 254, 254, 255) }  \* a wrapping Diff away from (0,0,0,255)

(* tag probes: an optional leading pixel, then every tag byte with a       *)
(* chosen second byte                                                      *)
ProbePrefixes ==
    { <<>>, <<255, 255, 255, 255, 255>>, <<255, 1, 128, 200, 7>> }

ProbeSeconds(t) == {t, 0, 127, 240}

(* the example: ColorRGB (10,20,30), Run with raw payload 3, four more pixels *)
ExampleSource ==
    GoodHeader \o <<254, 10, 20, 30>> \o <<195>>
      \o <<254, 1, 1, 1>> \o <<254, 2, 2, 2>> \o <<254, 3, 3, 3>> \o <<254, 4, 4, 4>>
      \o QOI_END_MARKER

(* sources that exercise ImageDecoder::new: a header with four distinct    *)
(* bytes in width and in height, magics that differ from "qoif" (one of    *)
(* them not UTF-8), and sources shorter than the header                    *)
HeaderSources ==
    { QOI_MAGIC \o <<1, 2, 3, 4, 10, 11, 12, 13, 4, 1>> \o QOI_END_MARKER,
      BadMagicHeader \o QOI_END_MARKER,
      <<255, 111, 105, 102>> \o <<0, 0, 0, 4, 0, 0, 0, 2, 3, 0>> \o QOI_END_MARKER,
      SubSeq(GoodHeader, 1, 13),
      <<113, 111, 105>>,
      <<>> }

RawOrig == [enc |-> FALSE, px |-> <<>>]

----------------------------------------------------------------------------
(* The initial state: a source has been chosen, nothing has been read.     *)

InitSession ==
    /\ ended = FALSE
    /\ seen = [i \in 0..(SEEN_ARRAY_SIZE - 1) |-> Pixel_zero]
    /\ prev = Pixel_new(0, 0, 0, 255)
    /\ window = [i \in 1..8 |-> 0]
    /\ window_processed = 8
    /\ run_active = FALSE
    /\ run_length = 0

Init ==
    /\ \/ \E n \in 0..MaxChunks : \E cs \in [1..n -> ChunkAlphabet] : \E t \in Tails :
            /\ source = GoodHeader \o Flatten(cs) \o t
            /\ orig = RawOrig
       \/ \E n \in 0..MaxPixels : \E px \in [1..n -> PixelValues] :
            /\ source = GoodHeader \o QoiEncode(px) \o QOI_END_MARKER
            /\ orig = [enc |-> TRUE, px |-> px]
       \/ \E pre \in ProbePrefixes : \E t \in Byte : \E b \in ProbeSeconds(t) :
            /\ source = GoodHeader \o pre \o <<t, b>> \o QOI_END_MARKER
            /\ orig = RawOrig
       \/ /\ source \in {ExampleSource} \cup HeaderSources
          /\ orig = RawOrig
    /\ pos = 0
    /\ pc = "start"
    /\ newResult = "none"
    /\ header = NoHeader
    /\ InitSession
    /\ ret = "none"
    /\ out = Pixel_zero
    /\ chunk = NoChunk
    /\ rets = <<>>
    /\ emitted = <<>>
    /\ produced = <<>>
    /\ runEmitted = 0
    /\ decoded = <<>>
    /\ it = NoIter
    /\ itRets = <<>>

sessionVars == <<ended, prev, seen, window, window_processed, run_active, run_length>>

traceVars == <<ret, rets, out, chunk, emitted, produced, runEmitted, decoded>>

iterVars == <<it, itRets>>

----------------------------------------------------------------------------
(* ImageDecoder::new with parse_header.                                    *)

parse_header(bytes) ==
    [width |-> be_u32(SubSeq(bytes, 5, 8)),
     height |-> be_u32(SubSeq(bytes, 9, 12)),
     channels |-> bytes[13],
     colorspace |-> bytes[14]]

New ==
    /\ pc = "start"
    /\ IF Len(source) - pos < HEADER_SIZE
       THEN /\ pos' = Len(source)
            /\ newResult' = "IO"
            /\ pc' = "failed"
            /\ header' = header
       ELSE LET header_bytes == SubSeq(source, pos + 1, pos + HEADER_SIZE) IN
            /\ pos' = pos + HEADER_SIZE
            /\ IF verify_magic(SubSeq(header_bytes, 1, 4))
               THEN /\ header' = parse_header(header_bytes)
                    /\ newResult' = "Ok"
                    /\ pc' = "decoder"
               ELSE /\ header' = header
                    /\ newResult' = "IncorrectMagic"
                    /\ pc' = "failed"
    /\ UNCHANGED <<source, orig>>
    /\ UNCHANGED sessionVars
    /\ UNCHANGED traceVars
    /\ UNCHANGED iterVars

(* ImageDecoder::chunks_iter, DecodeChunks::new *)
ChunksIter ==
    /\ pc = "decoder"
    /\ pc' = "session"
    /\ ended' = FALSE
    /\ seen' = [i \in 0..(SEEN_ARRAY_SIZE - 1) |-> Pixel_zero]
    /\ prev' = Pixel_new(0, 0, 0, 255)
    /\ window' = [i \in 1..8 |-> 0]
    /\ window_processed' = 8
    /\ run_active' = FALSE
    /\ run_length' = 0
    /\ UNCHANGED <<source, orig, pos, newResult, header>>
    /\ UNCHANGED traceVars
    /\ UNCHANGED iterVars

----------------------------------------------------------------------------
(* DecodeChunks::next_chunk, one call.                                     *)

(* the run test that stops one repetition early *)
InRun_early(active, len) == active /\ len > 1

(* if self.run_active { if self.run_length > 0 { ... } } *)
InRun(active, len) == active /\ len > 0

NextChunk ==
    /\ pc = "session"
    /\ IF InRun(run_active, run_length)
       THEN \* a repetition of the run: no I/O
            /\ run_length' = run_length - 1
            /\ ret' = "Ok"
            /\ out' = prev
            /\ emitted' = Append(emitted, prev)
            /\ runEmitted' = runEmitted + 1
            /\ UNCHANGED <<pc, pos, ended, prev, seen, window, window_processed,
                           run_active, chunk, produced, decoded>>
       ELSE IF Len(source) - pos < window_processed
       THEN \* read_exact fails: .expect("Failed to read source") panics
            /\ pc' = "panicked"
            /\ pos' = Len(source)
            /\ run_active' = FALSE
            /\ ret' = "Panic"
            /\ window' \in FailedRefill(window, window_processed, source, pos)
            /\ UNCHANGED <<ended, prev, seen, window_processed, run_length,
                           out, chunk, emitted, produced, runEmitted, decoded>>
       ELSE LET w == Refill(window, window_processed, source, pos) IN
            /\ window' = w
            /\ pos' = pos + window_processed
            /\ UNCHANGED <<pc, ended>>
            /\ IF IsEndMarker(w)
               THEN /\ ret' = "EndMarker"
                    /\ run_active' = FALSE
                    /\ UNCHANGED <<prev, seen, window_processed, run_length,
                                   out, chunk, emitted, produced, runEmitted, decoded>>
               ELSE LET c == decode_next_chunk(w, prev) IN
                    IF c = NoChunk
                    THEN /\ ret' = "Faulty"
                         /\ run_active' = FALSE
                         /\ UNCHANGED <<prev, seen, window_processed, run_length,
                                        out, chunk, emitted, produced, runEmitted, decoded>>
                    ELSE /\ chunk' = c
                         /\ decoded' = Append(decoded, c)
                         /\ window_processed' = get_size(c)
                         /\ ret' = "Ok"
                         /\ IF c.kind = "Run"
                            THEN /\ run_active' = TRUE
                                 /\ run_length' = RunRemaining(c.n)
                                 /\ out' = prev
                                 /\ emitted' = Append(emitted, prev)
                                 /\ runEmitted' = 1
                                 /\ UNCHANGED <<prev, seen, produced>>
                            ELSE LET pixel == transform_chunk(c, seen, prev) IN
                                 /\ seen' = UpdateSeen(seen, pixel)
                                 /\ prev' = pixel
                                 /\ out' = pixel
                                 /\ emitted' = Append(emitted, pixel)
                                 /\ produced' = Append(produced, pixel)
                                 /\ run_active' = FALSE
                                 /\ UNCHANGED <<run_length, runEmitted>>
    /\ rets' = Append(rets, ret')
    /\ UNCHANGED <<source, orig, newResult, header>>
    /\ UNCHANGED iterVars

(* number of next_chunk calls made on the session *)
calls == Len(rets)

Next == New \/ ChunksIter \/ NextChunk

Spec == Init /\ [][Next]_vars

----------------------------------------------------------------------------
(* Steps of next_chunk, told apart by what they did.                       *)

(* a call that refilled the window (window_processed is never 0, so a      *)
(* refill reads at least one byte)                                         *)
RefillStep == pc = "session" /\ pc' = "session" /\ pos' # pos

(* a call that decoded a chunk of the given kind *)
ChunkStep(kind) == RefillStep /\ ret' = "Ok" /\ chunk'.kind = kind

(* a call that returned without touching the source *)
RepeatStep == pc = "session" /\ pc' = "session" /\ rets' # rets /\ pos' = pos

SixKinds == {"ColorRGB", "ColorRGBA", "Index", "Diff", "Luma", "Run"}

----------------------------------------------------------------------------
(* C1. Round-trip: the stream a conformant encoder produces for a pixel    *)
(* sequence is decoded call by call into exactly that sequence and then    *)
(* EndMarker: while every earlier call returned a pixel, call i returns    *)
(* pixel i of the original, and the call after the last pixel returns      *)
(* EndMarker; no call on the way is Faulty or fails to read.               *)
C1_RoundTrip ==
    orig.enc =>
        \A i \in 1..Len(rets) :
            (\A j \in 1..(i - 1) : rets[j] = "Ok") =>
                \/ /\ rets[i] = "Ok"
                   /\ i <= Len(orig.px)
                   /\ emitted[i] = orig.px[i]
                \/ /\ rets[i] = "EndMarker"
                   /\ i = Len(orig.px) + 1

(* C2. Tag exhaustiveness: every window that is not the end marker is      *)
(* classified as one of the six chunk kinds; decode_next_chunk never       *)
(* returns None and next_chunk never returns Faulty.                       *)
C2_TagExhaustive ==
    (pc = "session" /\ calls > 0 /\ window # QOI_END_MARKER) =>
        /\ decode_next_chunk(window, prev).kind \in SixKinds
        /\ ret # "Faulty"

(* C3 as claimed. End-marker precedence: a refill that leaves the window   *)
(* equal to the end marker returns EndMarker, emits no pixel, and leaves   *)
(* prev, the cache and the run state (run_active, run_length) unchanged.   *)
C3_EndMarkerKeepsRunState ==
    [][ (RefillStep /\ window' = QOI_END_MARKER) =>
            /\ ret' = "EndMarker"
            /\ emitted' = emitted
            /\ prev' = prev
            /\ seen' = seen
            /\ run_active' = run_active
            /\ run_length' = run_length ]_vars

(* C3 amended. End-marker precedence: a refill that leaves the window      *)
(* equal to the end marker returns EndMarker (never Index 0), emits no     *)
(* pixel, and leaves prev, the cache, window_processed and run_length      *)
(* unchanged; run_active is false afterwards, so a run whose repetitions   *)
(* were exhausted is closed by this step.                                  *)
C3_EndMarkerPrecedence ==
    [][ (RefillStep /\ window' = QOI_END_MARKER) =>
            /\ ret' = "EndMarker"
            /\ emitted' = emitted
            /\ produced' = produced
            /\ chunk' = chunk
            /\ prev' = prev
            /\ seen' = seen
            /\ window_processed' = window_processed
            /\ run_length' = run_length
            /\ run_active' = FALSE ]_vars

(* the end marker was returned after a finished run *)
C3_Witness ==
    /\ ret = "EndMarker"
    /\ window = QOI_END_MARKER
    /\ chunk.kind = "Run"
    /\ Len(emitted) > 1

(* C4. Run semantics: a Run chunk with raw payload n yields exactly n+1    *)
(* pixels, the call that reads it included, each equal to the previous     *)
(* pixel held when it was read; the calls that follow go to the source     *)
(* only once n+1 pixels are out, and none of the n+1 calls changes prev    *)
(* or any cache slot.                                                      *)
C4_RunSemantics ==
    [][ /\ ChunkStep("Run") =>
            /\ chunk'.n = window'[1] - 192
            /\ runEmitted' = 1
            /\ emitted' = Append(emitted, prev)
            /\ prev' = prev
            /\ seen' = seen
        /\ (pc = "session" /\ run_active /\ rets' # rets) =>
            IF runEmitted < chunk.n + 1
            THEN /\ RepeatStep
                 /\ runEmitted' = runEmitted + 1
                 /\ emitted' = Append(emitted, prev)
                 /\ prev' = prev
                 /\ seen' = seen
                 /\ window' = window
            ELSE /\ runEmitted = chunk.n + 1
                 /\ ~RepeatStep ]_vars

(* a Run with raw payload 3 has yielded its 4 pixels *)
C4_Witness ==
    /\ run_active
    /\ chunk.kind = "Run"
    /\ chunk.n = 3
    /\ runEmitted = 4
    /\ run_length = 0
    /\ produced # <<>>

(* C5 as claimed. Example: after [0xFE,10,20,30] and the Run tag 0xC3,     *)
(* calls 1 to 4 return (10,20,30,255) and the 5th call refills the         *)
(* window, consulting the chunk after the Run.                             *)
C5_ExampleFourPixels ==
    source = ExampleSource =>
        /\ calls \in 1..4 => (ret = "Ok" /\ out = Pixel_new(10, 20, 30, 255))
        /\ calls \in 2..4 => pos = HEADER_SIZE + 8 + 4
        /\ calls = 5 => pos = HEADER_SIZE + 8 + 4 + 1

(* C5 amended. Example: after [0xFE,10,20,30] and the Run tag 0xC3 (raw    *)
(* payload 3, four repetitions) calls 1 to 5 return (10,20,30,255), five   *)
(* pixels in all, and the window is next refilled on the 6th call, which   *)
(* decodes the chunk after the Run.                                        *)
C5_ExampleFivePixels ==
    source = ExampleSource =>
        /\ calls \in 1..5 => (ret = "Ok" /\ out = Pixel_new(10, 20, 30, 255))
        /\ calls \in 1..5 => emitted = [i \in 1..calls |-> Pixel_new(10, 20, 30, 255)]
        /\ calls = 1 => pos = HEADER_SIZE + 8
        /\ calls \in 2..5 => pos = HEADER_SIZE + 8 + 4
        /\ calls = 6 => /\ pos = HEADER_SIZE + 8 + 4 + 1
                        /\ ret = "Ok"
                        /\ out = Pixel_new(1, 1, 1, 255)

(* the example has been decoded up to the chunk after the Run *)
C5_Witness ==
    /\ source = ExampleSource
    /\ calls = 6
    /\ Len(emitted) = 6

----------------------------------------------------------------------------
(* C6. Cache invariant (last-write-wins): slot i holds the most recently   *)
(* produced pixel (of a ColorRGB, ColorRGBA, Index, Diff or Luma chunk)    *)
(* whose slot (3r+5g+7b+11a) mod 64 is i, and (0,0,0,0) when no produced   *)
(* pixel has slot i; right after a non-Run chunk, seen[slot(prev)] = prev. *)
C6_CacheLastWriteWins ==
    /\ \A i \in 0..63 :
          LET hits == {k \in 1..Len(produced) : SpecSlot(produced[k]) = i}
          IN IF hits = {}
             THEN seen[i] = Pixel_zero
             ELSE seen[i] = produced[CHOOSE k \in hits : \A m \in hits : m <= k]
    /\ (ret = "Ok" /\ chunk.kind \in (SixKinds \ {"Run"})) =>
          /\ prev = produced[Len(produced)]
          /\ seen[SpecSlot(prev)] = prev

(* a slot has been overwritten by a later pixel of the same slot *)
C6_Witness ==
    \E j, k \in 1..Len(produced) :
        /\ j < k
        /\ SpecSlot(produced[j]) = SpecSlot(produced[k])
        /\ produced[j] # produced[k]
        /\ produced[j] # Pixel_zero
        /\ seen[SpecSlot(produced[k])] = produced[k]

(* the call just made decoded a Run chunk *)
RunJustRead == pc = "session" /\ ret = "Ok" /\ chunk.kind = "Run" /\ runEmitted = 1

(* C7 as claimed. Whenever a Run chunk is processed, also as the first     *)
(* chunk of a session, the previous pixel is in the cache at its slot.     *)
C7_RunPrevCachedAlways ==
    RunJustRead => seen[SpecSlot(prev)] = prev

(* C7 amended. Whenever a Run chunk is processed after at least one        *)
(* non-Run chunk of the session, the previous pixel is in the cache at its *)
(* slot; a Run processed before any non-Run chunk repeats the initial      *)
(* previous pixel (0,0,0,255), which is in no cache slot (slot 53 and all  *)
(* others hold (0,0,0,0)).                                                 *)
C7_RunPrevCachedAfterPixel ==
    RunJustRead =>
        IF produced # <<>>
        THEN seen[SpecSlot(prev)] = prev
        ELSE /\ prev = Pixel_new(0, 0, 0, 255)
             /\ SpecSlot(prev) = 53
             /\ \A i \in 0..63 : seen[i] = Pixel_zero

(* a Run was read after a pixel that displaced another one in its slot *)
C7_Witness ==
    /\ RunJustRead
    /\ Len(produced) >= 2
    /\ prev # Pixel_zero
    /\ \E k \in 1..(Len(produced) - 1) :
          /\ SpecSlot(produced[k]) = SpecSlot(prev)
          /\ produced[k] # prev

(* C8 as claimed. Processing an Index(i) chunk leaves all 64 cache slots   *)
(* unchanged; only prev changes, to seen[i].                               *)
C8_IndexKeepsCache ==
    [][ ChunkStep("Index") =>
            /\ prev' = seen[window'[1]]
            /\ seen' = seen ]_vars

(* C8 amended. Processing an Index(i) chunk sets prev to seen[i] and       *)
(* leaves slots 1..63 unchanged; the whole cache is unchanged when i = 0   *)
(* or slot i holds a pixel other than (0,0,0,0) (the write-back then       *)
(* stores what slot i already holds); when i # 0 and slot i still holds    *)
(* (0,0,0,0), the write-back stores (0,0,0,0) into slot 0, replacing       *)
(* whatever pixel slot 0 held.                                             *)
C8_IndexWriteBack ==
    [][ ChunkStep("Index") =>
            LET i == window'[1] IN
            /\ i \in 0..63
            /\ prev' = seen[i]
            /\ out' = seen[i]
            /\ \A j \in 1..63 : seen'[j] = seen[j]
            /\ (i = 0 \/ seen[i] # Pixel_zero) => seen' = seen
            /\ (i # 0 /\ seen[i] = Pixel_zero) => seen'[0] = Pixel_zero ]_vars

(* an Index chunk has read a slot that an earlier pixel had filled *)
C8_Witness ==
    /\ ret = "Ok"
    /\ chunk.kind = "Index"
    /\ chunk.index # 0
    /\ prev # Pixel_zero
    /\ Len(produced) >= 3
    /\ produced[Len(produced) - 1] # prev

(* C9. Wraparound reconstruction: a chunk whose tag has top bits 01 yields *)
(* prev plus the three 2-bit fields minus 2, a chunk whose tag has top     *)
(* bits 10 yields r = prev.r + dg + drdg, g = prev.g + dg,                 *)
(* b = prev.b + dg + dbdg with dg = (tag & 0x3F) - 32 and drdg, dbdg the   *)
(* high and low nibble of the second byte minus 8; every sum is taken      *)
(* mod 256 and alpha is prev.a.                                            *)
C9_Wraparound ==
    [][ (RefillStep /\ window' # QOI_END_MARKER /\ window'[1] \in 64..191) =>
            LET tag == window'[1]
                b2 == window'[2]
                dr == ((tag \div 16) % 4) - 2
                dg == ((tag \div 4) % 4) - 2
                db == (tag % 4) - 2
                lg == (tag % 64) - 32
                drdg == (b2 \div 16) - 8
                dbdg == (b2 % 16) - 8
            IN /\ ret' = "Ok"
               /\ prev' = out'
               /\ IF tag < 128
                  THEN /\ chunk'.kind = "Diff"
                       /\ out' = [r |-> (prev.r + dr + 256) % 256,
                                  g |-> (prev.g + dg + 256) % 256,
                                  b |-> (prev.b + db + 256) % 256,
                                  a |-> prev.a]
                  ELSE /\ chunk'.kind = "Luma"
                       /\ out' = [r |-> (prev.r + lg + drdg + 256) % 256,
                                  g |-> (prev.g + lg + 256) % 256,
                                  b |-> (prev.b + lg + dbdg + 256) % 256,
                                  a |-> prev.a] ]_vars

(* a Luma chunk with drdg = 7 and dbdg = -8 has wrapped all three channels *)
C9_Witness ==
    /\ ret = "Ok"
    /\ chunk.kind = "Luma"
    /\ Len(produced) = 2
    /\ produced[1] = Pixel_new(255, 255, 255, 255)
    /\ window[1] = 191
    /\ window[2] = 240
    /\ out = Pixel_new(37, 30, 22, 255)

(* C10. Fault is terminal: once a call has returned Faulty, no later call  *)
(* on the session reads a byte from the source or emits a pixel.           *)
C10_FaultTerminal ==
    [][ (\E i \in 1..Len(rets) : rets[i] = "Faulty") =>
            /\ pos' = pos
            /\ emitted' = emitted ]_vars

(* C11. End is terminal: once a call has returned EndMarker, no later call *)
(* on the session emits a pixel or consumes a byte of the source, whatever *)
(* bytes follow the end marker.                                            *)
C11_EndTerminal ==
    [][ (\E i \in 1..Len(rets) : rets[i] = "EndMarker") =>
            /\ emitted' = emitted
            /\ pos' = pos ]_vars

(* C12. Truncated stream: when the source cannot supply the bytes of a     *)
(* refill, the call returns an outcome the caller can observe (an I/O      *)
(* error, distinct from a pixel, a clean end and a fault); the program is  *)
(* not aborted, so the session is never left by a panic.                   *)
C12_TruncationReported ==
    /\ pc # "panicked"
    /\ \A i \in 1..Len(rets) : rets[i] # "Panic"

(* C13. Header validation: ImageDecoder::new reads the first 14 bytes of   *)
(* the source and no more; it returns an I/O error when the source holds   *)
(* fewer than 14 bytes and IncorrectMagic when bytes 0..4 are not "qoif",  *)
(* and then no session exists and no chunk byte is ever read; on success   *)
(* width and height are the big-endian u32 of bytes 4..8 and 8..12.        *)
C13_HeaderValidation ==
    /\ pc = "start" => (pos = 0 /\ newResult = "none")
    /\ pc # "start" =>
          IF Len(source) < 14
          THEN /\ newResult = "IO"
               /\ pc = "failed"
               /\ pos = Len(source)
               /\ rets = <<>>
          ELSE IF <<source[1], source[2], source[3], source[4]>> # <<113, 111, 105, 102>>
          THEN /\ newResult = "IncorrectMagic"
               /\ pc = "failed"
               /\ pos = 14
               /\ rets = <<>>
          ELSE /\ newResult = "Ok"
               /\ pc \in {"decoder", "session", "panicked"}
               /\ pc = "decoder" => pos = 14
               /\ pos >= 14
               /\ header.width = ((source[5] * 256 + source[6]) * 256 + source[7]) * 256 + source[8]
               /\ header.height = ((source[9] * 256 + source[10]) * 256 + source[11]) * 256 + source[12]
               /\ header.channels = source[13]
               /\ header.colorspace = source[14]

(* a header whose width and height use all four bytes has been accepted *)
C13_Witness ==
    /\ newResult = "Ok"
    /\ pc = "decoder"
    /\ header.width = 16909060
    /\ header.height = 168496141
    /\ header.channels = 4

(* wire sizes of the chunk kinds as the format gives them *)
WireSize(c) ==
    CASE c.kind = "ColorRGB"  -> 4
      [] c.kind = "ColorRGBA" -> 5
      [] c.kind = "Index"     -> 1
      [] c.kind = "Diff"      -> 1
      [] c.kind = "Luma"      -> 2
      [] c.kind = "Run"       -> 1

RECURSIVE WireSum(_)
WireSum(cs) == IF cs = <<>> THEN 0 ELSE WireSize(Head(cs)) + WireSum(Tail(cs))

(* the last call decoded a chunk (it was not a repetition of a run) *)
ChunkJustDecoded ==
    /\ pc = "session"
    /\ ret = "Ok"
    /\ decoded # <<>>
    /\ chunk.kind = "Run" => runEmitted = 1

(* C14. Window alignment: at every step that decodes a chunk the window    *)
(* holds the 8 stream bytes at offset S behind the header, S being the sum *)
(* of the wire sizes of the chunks decoded before it, and the bytes read   *)
(* behind the header number S + 8; on a stream of a conformant encoder an  *)
(* EndMarker is returned with the source consumed exactly through the end  *)
(* marker.                                                                 *)
C14_WindowAligned ==
    /\ ChunkJustDecoded =>
          LET S == WireSum(SubSeq(decoded, 1, Len(decoded) - 1)) IN
          /\ pos - HEADER_SIZE = S + 8
          /\ window = [i \in 1..8 |-> source[HEADER_SIZE + S + i]]
    /\ (orig.enc /\ ret = "EndMarker") =>
          /\ pos = Len(source)
          /\ pos - HEADER_SIZE = WireSum(decoded) + 8

(* C15. Run steps are I/O-free: a call made while run_active is set and    *)
(* run_length > 0 reads no byte and leaves window, window_processed, the   *)
(* cache and prev unchanged; it decrements run_length by 1 and returns     *)
(* prev.                                                                   *)
C15_RunStepNoIO ==
    [][ (pc = "session" /\ run_active /\ run_length > 0 /\ rets' # rets) =>
            /\ pc' = "session"
            /\ pos' = pos
            /\ window' = window
            /\ window_processed' = window_processed
            /\ seen' = seen
            /\ prev' = prev
            /\ run_active' = run_active
            /\ run_length' = run_length - 1
            /\ ret' = "Ok"
            /\ out' = prev
            /\ emitted' = Append(emitted, prev) ]_vars

(* the last repetition of a Run with raw payload 61 has been returned *)
C15_Witness ==
    /\ run_active
    /\ run_length = 0
    /\ chunk.kind = "Run"
    /\ chunk.n = 61
    /\ runEmitted = 62
    /\ ret = "Ok"

(* C16. Alpha inheritance: a chunk with tag 0xFE yields (window[1],         *)
(* window[2], window[3], a) with a the alpha of the previous pixel before  *)
(* the chunk; Diff and Luma keep prev.a; so a call returns a pixel whose   *)
(* alpha differs from the previous pixel's, or from the alpha returned     *)
(* before it, only when it decoded a ColorRGBA or an Index chunk.          *)
C16_AlphaInherited ==
    [][ (pc = "session" /\ emitted' # emitted) =>
            /\ (RefillStep /\ window'[1] = 254) =>
                  /\ chunk'.kind = "ColorRGB"
                  /\ out' = [r |-> window'[2], g |-> window'[3],
                             b |-> window'[4], a |-> prev.a]
            /\ (RefillStep /\ chunk'.kind \in {"ColorRGB", "Diff", "Luma"}) =>
                  out'.a = prev.a
            /\ out' = emitted'[Len(emitted')]
            /\ (out'.a # prev.a \/ (emitted # <<>> /\ out'.a # emitted[Len(emitted)].a)) =>
                  /\ RefillStep
                  /\ chunk'.kind \in {"ColorRGBA", "Index"} ]_vars

(* a ColorRGB chunk has inherited an alpha other than the initial 255 *)
C16_Witness ==
    /\ ret = "Ok"
    /\ chunk.kind = "ColorRGB"
    /\ window[1] = 254
    /\ Len(emitted) >= 2
    /\ emitted[Len(emitted) - 1].a = 0
    /\ out = Pixel_new(10, 20, 30, 0)

(* C17. Payload bounds: a window whose tag is 0xFE or 0xFF decodes to      *)
(* ColorRGB or ColorRGBA, never to Run; every decoded Run chunk has raw    *)
(* payload in 0..61, its un-biased count is in 1..62 and fits a u8;        *)
(* run_length is in 0..61 in every reachable state; every decoded Index    *)
(* payload is in 0..63 and addresses a slot of seen.                       *)
C17_PayloadBounds ==
    /\ run_length \in 0..61
    /\ \A i \in 1..Len(decoded) :
          LET c == decoded[i] IN
          /\ c.kind = "Run" =>
                /\ c.n \in 0..61
                /\ c.n + 1 \in 1..62
                /\ c.n + 1 < 256
                /\ RunRemaining(c.n) = c.n
          /\ c.kind = "Index" =>
                /\ c.index \in 0..63
                /\ c.index \in DOMAIN seen
    /\ ChunkJustDecoded =>
          /\ window[1] = 254 => chunk.kind = "ColorRGB"
          /\ window[1] = 255 => chunk.kind = "ColorRGBA"
          /\ chunk.kind = "Run" => run_length = BitAnd(window[1], 63)

(* the longest run, tag 0xFD with raw payload 61, has just been decoded *)
C17_Witness ==
    /\ ChunkJustDecoded
    /\ window[1] = 253
    /\ chunk.kind = "Run"
    /\ chunk.n = 61
    /\ run_active
    /\ run_length = 61

(* what is left for the session to do: the unread bytes, each worth the    *)
(* longest run it can start, the repetitions still owed, and the call that *)
(* finds the source exhausted                                              *)
Variant ==
    62 * (Len(source) - pos) + run_length + (IF pc = "session" THEN 1 ELSE 0)

(* C18. Progress and termination: window_processed is one of 1, 2, 4, 5, 8 *)
(* in every reachable state, so 8 - window_processed never underflows;     *)
(* every next_chunk call decrements run_length without reading, or reads   *)
(* at least one byte, or fails to read and ends the session; each call     *)
(* strictly decreases a natural-number measure of the unread source and    *)
(* the owed repetitions, so the calls made on a session, and with them the *)
(* pixels it returns, number at most 62 per source byte behind the header  *)
(* plus one.                                                               *)
C18_Progress ==
    /\ window_processed \in {1, 2, 4, 5, 8}
    /\ [][ /\ window_processed' \in {1, 2, 4, 5, 8}
           /\ 8 - window_processed' \in 0..7
           /\ Variant' \in Nat
           /\ pc' \in {"session", "panicked"} =>
                 Len(rets') + Variant' <= 62 * (Len(source) - HEADER_SIZE) + 1
           /\ (pc = "session" /\ rets' # rets) =>
                 /\ \/ /\ run_length' = run_length - 1
                       /\ pos' = pos
                       /\ ret' = "Ok"
                    \/ /\ pos' > pos
                       /\ pos' = pos + window_processed
                       /\ pc' = "session"
                    \/ /\ Len(source) - pos < window_processed
                       /\ ret' = "Panic"
                       /\ pc' = "panicked"
                       /\ emitted' = emitted
                 /\ Variant' < Variant
                 /\ Len(emitted') <= Len(emitted) + 1 ]_vars

(* a session that decoded chunks, repeated a run and then ran out of bytes *)
C18_Witness ==
    /\ pc = "panicked"
    /\ pos = Len(source)
    /\ runEmitted >= 2
    /\ Len(decoded) >= 2
    /\ Len(emitted) >= 4

----------------------------------------------------------------------------
(* Pixel::to_channels3_iter, Pixel::to_channels4_iter and                  *)
(* PixelChannelIterator::next, on a pixel held in out.                     *)

(* next() calls made on one iterator; the u8 counter overflows on call 256 *)
MaxIterCalls == 258

Some(v) == [tag |-> "Some", val |-> v]

None == [tag |-> "None", val |-> 0]

Panicked == [tag |-> "Panic", val |-> 0]

(* let val = match (self.channels, self.counter) { ... } *)
ChannelAt(i) ==
    IF i.channels \in {3, 4} /\ i.counter = 0 THEN Some(i.px.r)
    ELSE IF i.channels \in {3, 4} /\ i.counter = 1 THEN Some(i.px.g)
    ELSE IF i.channels \in {3, 4} /\ i.counter = 2 THEN Some(i.px.b)
    ELSE IF i.channels = 4 /\ i.counter = 3 THEN Some(i.px.a)
    ELSE None

InitChannels ==
    /\ source = GoodHeader \o QOI_END_MARKER
    /\ orig = RawOrig
    /\ pos = 0
    /\ pc = "start"
    /\ newResult = "none"
    /\ header = NoHeader
    /\ InitSession
    /\ ret = "none"
    /\ out \in PixelValues
    /\ chunk = NoChunk
    /\ rets = <<>>
    /\ emitted = <<>>
    /\ produced = <<>>
    /\ runEmitted = 0
    /\ decoded = <<>>
    /\ it = NoIter
    /\ itRets = <<>>

decoderVars ==
    <<source, orig, pos, pc, newResult, header, sessionVars, traceVars>>

to_channels3_iter ==
    /\ it = NoIter
    /\ it' = [px |-> out, channels |-> 3, counter |-> 0]
    /\ itRets' = <<>>
    /\ UNCHANGED decoderVars

to_channels4_iter ==
    /\ it = NoIter
    /\ it' = [px |-> out, channels |-> 4, counter |-> 0]
    /\ itRets' = <<>>
    /\ UNCHANGED decoderVars

(* one next() call; self.counter += 1 on a u8 holding 255 panics in a      *)
(* build with overflow checks and wraps to 0 in a build without them       *)
PixelChannelIterator_next ==
    /\ it # NoIter
    /\ Len(itRets) < MaxIterCalls
    /\ \A k \in 1..Len(itRets) : itRets[k] # Panicked
    /\ IF it.counter < 255
       THEN /\ it' = [it EXCEPT !.counter = it.counter + 1]
            /\ itRets' = Append(itRets, ChannelAt(it))
       ELSE \/ /\ it' = it
               /\ itRets' = Append(itRets, Panicked)
            \/ /\ it' = [it EXCEPT !.counter = (it.counter + 1) % 256]
               /\ itRets' = Append(itRets, ChannelAt(it))
    /\ UNCHANGED decoderVars

NextChannels == to_channels3_iter \/ to_channels4_iter \/ PixelChannelIterator_next

SpecChannels == InitChannels /\ [][NextChannels]_vars

(* the channels a pixel serializes to, in order *)
Channels(p, n) == SubSeq(<<p.r, p.g, p.b, p.a>>, 1, n)

(* C19. Channel serialization: an iterator made by to_channels3_iter       *)
(* returns Some(r), Some(g), Some(b) and one made by to_channels4_iter     *)
(* returns Some(r), Some(g), Some(b), Some(a), in that order, and every    *)
(* value a later next() call returns is None.                              *)
C19_ChannelsThenNone ==
    it # NoIter =>
        \A k \in 1..Len(itRets) :
            itRets[k] # Panicked =>
                IF k <= it.channels
                THEN itRets[k] = Some(Channels(it.px, it.channels)[k])
                ELSE itRets[k] = None

====
